---- MODULE Spec2Model ----
(***************************************************************************)
(* Model of the CPALMS crawl of fl-doe-standards: the SQLite store         *)
(* (src/src/db_manager.py), the retrying fetcher, the extractor and the    *)
(* orchestrator (src/src/cpalms_scraper.py) and the command line driver    *)
(* (src/src/scrape_cpalms.py), and of the normaliser and matcher of        *)
(* benchmark codes (src/src/utils.py).                                     *)
(*                                                                         *)
(* Benchmark ids are Python strings; they are modelled as sequences of     *)
(* character codes so that list.sort() and the lexical order of ids are    *)
(* computed, not assumed.  The empty sequence stands for None and for the  *)
(* empty string, which the code treats alike (both are falsy).             *)
(***************************************************************************)
EXTENDS Integers, Sequences, FiniteSets, TLC

VARIABLES
    \* ---- durable state ----
    db_benchmarks,      \* table benchmarks: id -> row
    db_resources,       \* table resources: rows in AUTOINCREMENT order
    db_access_points,   \* table access_points: access_point_id -> benchmark_id
    db_scrape_status,   \* table scrape_status: benchmark_id -> row
    state_file,         \* data/processed/scraper_state.json: last_processed, None if no file
    db_ok,              \* FALSE while sqlite raises on every statement (disk full, locked)
    \* ---- one process (main) ----
    excel,              \* the benchmarks loaded from the Excel file: id -> cpalms_url
    pc,                 \* position of the process
    retry_failed,       \* args.retry_failed
    benchmarks,         \* keys of the dict handed to scrape_all_benchmarks
    start_from,         \* start_from handed to scrape_all_benchmarks
    benchmark_ids,      \* the sorted (and sliced) list the loop iterates
    i,                  \* 1-based position of the loop in benchmark_ids
    delay,              \* self.delay in milliseconds
    total_processed,
    total_successful,
    success,            \* result of scrape_benchmark for the current item
    max_retries,        \* parameter of _make_request_with_retry
    retry_count,        \* local of _make_request_with_retry
    response,           \* last response of the current fetch
    page,               \* body of the returned response
    runs,               \* number of processes started so far
    \* ---- history ----
    fetched,            \* ids for which a request was issued in this run
    served,             \* the responses requests.get gave to the current fetch
    sleeps,             \* time.sleep calls of the current fetch (backoff)
    fetch_result,       \* "none", "returned" or "raised"
    backoff,            \* <<delay, slept>> of the last backoff sleep, in milliseconds
    update_calls,       \* update_scrape_status calls per id
    store_failed,       \* a store_* call of the current item returned False
    \* ---- checkpoint file, step by step ----
    temp_file,          \* scraper_state.json.tmp, None if no file
    last_save,          \* <<id, returned>> of the last save_state call
    ever_saved,         \* some save_state call returned True
    loaded,             \* <<value, fresh>>: what load_state returned, and whether
                        \* no save_state was called since
    saving,             \* argument of the save_state call in progress or last made
    previous,           \* text of the state file when that call began
    \* ---- utils.py: one call of the normaliser or of the matcher ----
    query,              \* the raw string of the user, a sequence of characters
    normalized,         \* normalize_benchmark_format(query)
    renormalized,       \* normalize_benchmark_format(normalized)
    benchmark_list,     \* the known ids handed to find_closest_benchmark
    scores,             \* the scorer of process.extractOne: candidate -> score
    result,             \* the pair find_closest_benchmark returned
    scored,             \* process.extractOne was called
    \* ---- results of single calls ----
    pending,            \* <<list, fresh>>: what get_pending_benchmarks returned, and
                        \* whether no table was written since
    found,              \* <<count, rows>>: what _extract_and_store_resources returned,
                        \* and the number of resource rows when it was called
    prior,              \* the run before this one, as its interrupt left it, and
                        \* how this run was started after it
    entry,              \* <<attempt_count, update calls>> of the current id when
                        \* scrape_benchmark was entered
    visited,            \* the ids the loop of this run has taken up, in order
    store_log           \* the calls made on the resource and access point tables:
                        \* per id the scrapes and the single stores, per access
                        \* point the stores and the benchmark of the latest one

db_vars == <<db_benchmarks, db_resources, db_access_points, db_scrape_status,
             state_file, db_ok>>
run_vars == <<excel, pc, retry_failed, benchmarks, start_from, benchmark_ids, i,
              delay, total_processed, total_successful, success, runs>>
run_vars_but_pc == <<excel, retry_failed, benchmarks, start_from, benchmark_ids, i,
                    delay, total_processed, total_successful, success, runs>>
fetch_vars == <<max_retries, retry_count, response, page, served, sleeps,
                fetch_result, backoff>>
file_vars == <<temp_file, last_save, ever_saved, loaded, saving, previous>>
utils_vars == <<query, normalized, renormalized, benchmark_list, scores, result, scored>>
other_calls == <<found, store_log>>
more_vars == <<pending, other_calls>>
crawl_history == <<prior, entry, visited>>
aside_vars == <<file_vars, utils_vars, more_vars, crawl_history>>
vars == <<db_vars, run_vars, fetch_vars, fetched, update_calls, store_failed, aside_vars>>

----------------------------------------------------------------------------
(* Bounds of the model *)

MaxRuns == 2
MaxCalls == 3
MaxRetriesArg == 5

(* Program constants *)

DefaultMaxRetries == 3

----------------------------------------------------------------------------
(* Strings *)

None == <<>>

A == <<1>>
AB == <<1, 2>>
B == <<2>>
C == <<3>>

ExcelIds == {A, B, C}
StartIds == {A, AB, B, C}

NoUrl == ""
Url == "https://www.cpalms.org/PreviewStandard/Preview"

RECURSIVE LexLess(_, _)
LexLess(s, t) ==
    IF s = <<>> THEN t # <<>>
    ELSE IF t = <<>> THEN FALSE
    ELSE IF Head(s) = Head(t) THEN LexLess(Tail(s), Tail(t))
    ELSE Head(s) < Head(t)

\* the ids in descending order
RECURSIVE SortIdsDescending(_)
SortIdsDescending(S) ==
    IF S = {} THEN <<>>
    ELSE LET m == CHOOSE x \in S : \A y \in S \ {x} : LexLess(y, x)
         IN  <<m>> \o SortIdsDescending(S \ {m})

RECURSIVE SortIds(_)
SortIds(S) ==
    IF S = {} THEN <<>>
    ELSE LET m == CHOOSE x \in S : \A y \in S \ {x} : LexLess(x, y)
         IN  <<m>> \o SortIds(S \ {m})

SeqToSet(s) == {s[k] : k \in 1..Len(s)}

IndexOf(s, x) == CHOOSE k \in 1..Len(s) : s[k] = x /\ \A j \in 1..(k - 1) : s[j] # x

----------------------------------------------------------------------------
(* HTTP *)

RetryStatusCodes == {429, 500, 502, 503, 504}
ConnectionError == 0
Responses == {200, 404, 429, 503, ConnectionError}
CrawlResponses == {200, 404, 503}
NoResponse == -1

\* Retryable with 429 left out of the list of status codes
RetryableWithout429(r) == r \in (RetryStatusCodes \ {429}) \/ r = ConnectionError

\* a retry-able status code makes raise_for_status raise HTTPError; a transport
\* error is a RequestException too
Retryable(r) == r \in RetryStatusCodes \/ r = ConnectionError

\* GiveUp with the comparison off by one
GiveUpOneEarly(count, limit) == count >= limit

GiveUp(count, limit) == count > limit

\* ---- backoff of _make_request_with_retry, times in milliseconds ----

BaseDelay == 5000
MaxDelay == 60000
BackoffFactor == 2

RECURSIVE Pow(_, _)
Pow(b, e) == IF e = 0 THEN 1 ELSE b * Pow(b, e - 1)

Min(a, b) == IF a <= b THEN a ELSE b

\* a delay that grows without the cap of max_delay
backoff_delay_uncapped(count, base_delay, max_delay, backoff_factor) ==
    base_delay * Pow(backoff_factor, count - 1)

\* min(max_delay, base_delay * (backoff_factor ** (retry_count - 1)))
backoff_delay(count, base_delay, max_delay, backoff_factor) ==
    Min(max_delay, base_delay * Pow(backoff_factor, count - 1))

\* random.uniform(-0.1, 0.1) * delay, for a draw u in thousandths
backoff_jitter(u, d) == (u * d) \div 1000

ErrorText(r) ==
    IF r = ConnectionError THEN "Connection aborted"
    ELSE IF r = 503 THEN "503 Server Error"
    ELSE IF r = 429 THEN "429 Client Error"
    ELSE "HTTP Error"

----------------------------------------------------------------------------
(* Markup *)

Block(link, label, url_kw, title_kw, marker) ==
    [link |-> link, label |-> label, url_kw |-> url_kw, title_kw |-> title_kw,
     marker |-> marker]

LessonBlock == Block(TRUE, "Lesson Plan", "none", "none", "none")
AssessmentBlock == Block(TRUE, "none", "Formative Assessment", "none", "none")
OtherBlock == Block(TRUE, "Text Resource", "Lesson Plan", "none", "none")

EmptyPage == [blocks |-> <<>>, aps |-> {}]
FullPage == [blocks |-> <<LessonBlock, AssessmentBlock, OtherBlock>>, aps |-> {"MA.K.NSO.1.AP.1"}]
Pages == {EmptyPage, FullPage}
NoPage == [blocks |-> <<>>, aps |-> {"-"}]

determine_resource_type(b) ==
    IF b.url_kw \in {"Lesson Plan", "Formative Assessment"} THEN b.url_kw
    ELSE IF b.title_kw \in {"Lesson Plan", "Formative Assessment"} THEN b.title_kw
    ELSE IF b.marker \in {"Lesson Plan", "Formative Assessment"} THEN b.marker
    ELSE "Other"

ResourceType(b) ==
    IF b.label # "none"
    THEN IF b.label \in {"Lesson Plan", "Formative Assessment"} THEN b.label ELSE "Other"
    ELSE determine_resource_type(b)

----------------------------------------------------------------------------
(* DatabaseManager: every method catches sqlite's exception, logs it and    *)
(* returns False (or an empty result), leaving the table as it was.         *)

Upsert(tbl, key, row) ==
    [x \in (DOMAIN tbl) \cup {key} |-> IF x = key THEN row ELSE tbl[x]]

BenchmarkRow(grade_level, definition, cpalms_url, last_updated) ==
    [grade_level |-> grade_level, definition |-> definition,
     subject |-> "Mathematics", cpalms_url |-> cpalms_url,
     last_updated |-> last_updated]

store_benchmark(tbl, benchmark_id, grade_level, definition, cpalms_url, last_updated) ==
    IF db_ok
    THEN Upsert(tbl, benchmark_id,
                BenchmarkRow(grade_level, definition, cpalms_url, last_updated))
    ELSE tbl

\* a store that leaves out a row the table already holds
store_resource_dedup(tbl, benchmark_id, resource_type) ==
    LET row == [benchmark_id |-> benchmark_id, resource_type |-> resource_type]
    IN  IF db_ok /\ row \notin SeqToSet(tbl) THEN Append(tbl, row) ELSE tbl

store_resource(tbl, benchmark_id, resource_type) ==
    IF db_ok
    THEN Append(tbl, [benchmark_id |-> benchmark_id, resource_type |-> resource_type])
    ELSE tbl

store_access_point(tbl, access_point_id, benchmark_id) ==
    IF db_ok THEN Upsert(tbl, access_point_id, benchmark_id) ELSE tbl

\* update_scrape_status that replaces the row without reading the old count
\* an update that writes the error text only when it is given one
update_scrape_status_keeps_error(tbl, benchmark_id, status, error_message) ==
    IF db_ok
    THEN LET attempt_count ==
                 IF benchmark_id \in DOMAIN tbl
                 THEN tbl[benchmark_id].attempt_count + 1
                 ELSE 1
             kept ==
                 IF error_message = "" /\ benchmark_id \in DOMAIN tbl
                 THEN tbl[benchmark_id].error_message
                 ELSE error_message
         IN  Upsert(tbl, benchmark_id,
                    [status |-> status, attempt_count |-> attempt_count,
                     error_message |-> kept])
    ELSE tbl

update_scrape_status_no_read(tbl, benchmark_id, status, error_message) ==
    IF db_ok
    THEN Upsert(tbl, benchmark_id,
                [status |-> status, attempt_count |-> 1,
                 error_message |-> error_message])
    ELSE tbl

update_scrape_status(tbl, benchmark_id, status, error_message) ==
    IF db_ok
    THEN LET attempt_count ==
                 IF benchmark_id \in DOMAIN tbl
                 THEN tbl[benchmark_id].attempt_count + 1
                 ELSE 1
         IN  Upsert(tbl, benchmark_id,
                    [status |-> status, attempt_count |-> attempt_count,
                     error_message |-> error_message])
    ELSE tbl

\* get_scrape_status(id)['status'], "none" when the method returns None
get_scrape_status(benchmark_id) ==
    IF db_ok /\ benchmark_id \in DOMAIN db_scrape_status
    THEN db_scrape_status[benchmark_id].status
    ELSE "none"

\* a query that leaves out the benchmarks whose status is pending
get_pending_benchmarks_not_pending ==
    IF db_ok
    THEN SortIds({b \in DOMAIN db_benchmarks :
                    \/ b \notin DOMAIN db_scrape_status
                    \/ db_scrape_status[b].status \in {"failed"}})
    ELSE <<>>

get_pending_benchmarks ==
    IF db_ok
    THEN SortIds({b \in DOMAIN db_benchmarks :
                    \/ b \notin DOMAIN db_scrape_status
                    \/ db_scrape_status[b].status \in {"failed", "pending"}})
    ELSE <<>>

----------------------------------------------------------------------------
(* CPALMSScraper: checkpoint file *)

\* json.dump(state_data, f): the text of the file, one key/value pair per member
json_dump(state_data) == state_data

\* a write cut short: the text up to the middle of the first member
Truncated(text) == <<<<text[1][1]>>>>

\* json.load(f) succeeds on a text whose members are all complete
json_loads(text) == text # <<>> /\ \A k \in 1..Len(text) : Len(text[k]) = 2

\* state.get(key) of the dict json.load returns
dict_get(state, key) ==
    IF \E k \in 1..Len(state) : state[k][1] = key
    THEN state[CHOOSE k \in 1..Len(state) : state[k][1] = key][2]
    ELSE None

\* a save_state that leaves an existing state file as it is
save_state_first_wins(last_processed) ==
    IF state_file # None THEN state_file
    ELSE json_dump(<<<<"last_processed", last_processed>>, <<"timestamp", "now">>>>)

\* save_state: the text that os.replace moves to the state file
save_state(last_processed) ==
    json_dump(<<<<"last_processed", last_processed>>, <<"timestamp", "now">>>>)

\* load_state: None when there is no file or json.load raises
load_state ==
    IF state_file = None THEN None
    ELSE IF json_loads(state_file) THEN dict_get(state_file, "last_processed")
    ELSE None

----------------------------------------------------------------------------
(* CPALMSScraper: extraction *)

\* a filter that lets every block with a link through
KeptWhateverType(b) == b.link

Kept(b) == b.link /\ ResourceType(b) \in {"Lesson Plan", "Formative Assessment"}

\* count: one for every kept block whose store_resource returned True
RECURSIVE resources_count(_)
resources_count(blocks) ==
    IF blocks = <<>> THEN 0
    ELSE (IF Kept(Head(blocks)) /\ db_ok THEN 1 ELSE 0) + resources_count(Tail(blocks))

RECURSIVE extract_and_store_resources(_, _, _)
extract_and_store_resources(tbl, blocks, benchmark_id) ==
    IF blocks = <<>> THEN tbl
    ELSE extract_and_store_resources(
             IF Kept(Head(blocks))
             THEN store_resource(tbl, benchmark_id, ResourceType(Head(blocks)))
             ELSE tbl,
             Tail(blocks), benchmark_id)

RECURSIVE extract_and_store_access_points(_, _, _)
extract_and_store_access_points(tbl, aps, benchmark_id) ==
    IF aps = {} THEN tbl
    ELSE LET ap == CHOOSE x \in aps : TRUE
         IN  extract_and_store_access_points(
                 store_access_point(tbl, ap, benchmark_id), aps \ {ap}, benchmark_id)

----------------------------------------------------------------------------
(* The process *)

Delays == {-1000, 1000}
Jitter == {-100, 0, 100}

Args == [start_from : {None} \cup StartIds, resume : BOOLEAN,
         retry_failed : BOOLEAN, delay : Delays]

Running == {"begin", "fetch", "extract", "mark", "failed", "save", "delay"}

benchmark_id == benchmark_ids[i]

\* no run has gone before
NoPrior == [follows |-> FALSE, resumed |-> FALSE, in_flight |-> None,
            succeeded |-> {}, benchmarks |-> {}]

\* the id whose scrape_benchmark call has not returned yet
in_flight ==
    IF pc \in {"fetch", "extract", "mark", "failed"} THEN benchmark_id ELSE None

\* the ids for which scrape_benchmark has returned True in this run
succeeded ==
    {benchmark_ids[j] : j \in {k \in 1..Len(benchmark_ids) :
        /\ k <= i
        /\ (k = i => (pc \in {"save", "delay"} /\ success))
        /\ excel[benchmark_ids[k]] # NoUrl
        /\ get_scrape_status(benchmark_ids[k]) = "success"}}

\* scrape_all_benchmarks: the list to iterate
WorkList(keys, from) ==
    LET ids == SortIds(keys)
    IN  IF from # None /\ from \in SeqToSet(ids)
        THEN SubSeq(ids, IndexOf(ids, from) + 1, Len(ids))
        ELSE ids

\* main: the dict handed to the scraper
RetrySet(flag) ==
    LET failed_benchmarks == {b \in DOMAIN excel : get_scrape_status(b) = "failed"}
    IN  IF flag /\ failed_benchmarks # {} THEN failed_benchmarks ELSE DOMAIN excel

\* main: the benchmarks table after the loop of store_benchmark calls
LoadedBenchmarks ==
    IF db_ok
    THEN [x \in (DOMAIN db_benchmarks) \cup (DOMAIN excel) |->
            IF x \in DOMAIN excel
            THEN BenchmarkRow("K", "definition", excel[x], "null")
            ELSE db_benchmarks[x]]
    ELSE db_benchmarks

ResetFetch ==
    /\ max_retries' = DefaultMaxRetries
    /\ retry_count' = 0
    /\ served' = <<>>
    /\ sleeps' = 0
    /\ fetch_result' = "none"
    /\ backoff' = <<0, 0>>
    /\ page' = NoPage

StartRun(args) ==
    /\ pc \in {"idle", "complete", "interrupted"}
    /\ runs < MaxRuns
    /\ runs' = runs + 1
    /\ db_benchmarks' = LoadedBenchmarks
    /\ retry_failed' = args.retry_failed
    /\ start_from' = IF args.start_from # None THEN args.start_from
                     ELSE IF args.resume THEN load_state
                     ELSE None
    /\ benchmarks' = RetrySet(args.retry_failed)
    /\ benchmark_ids' = WorkList(benchmarks', start_from')
    /\ delay' = args.delay
    /\ i' = 1
    /\ total_processed' = 0
    /\ total_successful' = 0
    /\ success' = FALSE
    /\ response' = NoResponse
    /\ fetched' = {}
    /\ pc' = "begin"
    /\ ResetFetch
    /\ UNCHANGED <<db_resources, db_access_points, db_scrape_status, state_file,
                   db_ok, excel, update_calls>>
    /\ store_failed' = FALSE
    /\ prior' = [prior EXCEPT !.follows = (pc = "interrupted"),
                                !.resumed = (args.resume /\ args.start_from = None)]
    /\ visited' = <<>>
    /\ UNCHANGED <<file_vars, utils_vars, more_vars, entry>>

SkipItem ==
    /\ pc = "begin"
    /\ i <= Len(benchmark_ids)
    /\ excel[benchmark_id] = NoUrl
    /\ i' = i + 1
    /\ UNCHANGED <<db_vars, excel, pc, retry_failed, benchmarks, start_from,
                   benchmark_ids, delay, total_processed, total_successful,
                   success, runs, fetch_vars, fetched, update_calls>>
    /\ visited' = Append(visited, benchmark_id)
    /\ UNCHANGED <<store_failed, file_vars, utils_vars, more_vars, prior, entry>>

BeginItem ==
    /\ pc = "begin"
    /\ i <= Len(benchmark_ids)
    /\ excel[benchmark_id] # NoUrl
    /\ db_scrape_status' = update_scrape_status(db_scrape_status, benchmark_id, "pending", "")
    /\ update_calls' = [update_calls EXCEPT ![benchmark_id] = @ + 1]
    /\ ResetFetch
    /\ response' = NoResponse
    /\ pc' = "fetch"
    /\ UNCHANGED <<db_benchmarks, db_resources, db_access_points, state_file, db_ok,
                   excel, retry_failed, benchmarks, start_from, benchmark_ids, i,
                   delay, total_processed, total_successful, success, runs, fetched>>
    /\ store_failed' = FALSE
    /\ entry' = <<IF benchmark_id \in DOMAIN db_scrape_status
                     THEN db_scrape_status[benchmark_id].attempt_count ELSE 0,
                  update_calls[benchmark_id]>>
    /\ visited' = Append(visited, benchmark_id)
    /\ UNCHANGED <<file_vars, utils_vars, more_vars, prior>>

\* one iteration of the while loop of _make_request_with_retry
Attempt(r, body, jit) ==
    /\ pc = "fetch"
    /\ served' = Append(served, r)
    /\ fetched' = fetched \cup {benchmark_id}
    /\ response' = r
    /\ IF Retryable(r)
       THEN /\ retry_count' = retry_count + 1
            /\ IF GiveUp(retry_count', max_retries)
               THEN /\ fetch_result' = "raised"
                    /\ sleeps' = sleeps
                    /\ backoff' = backoff
                    /\ pc' = "failed"
               ELSE /\ fetch_result' = "none"
                    /\ sleeps' = sleeps + 1
                    /\ backoff' =
                          LET d == backoff_delay(retry_count', BaseDelay, MaxDelay, BackoffFactor)
                          IN  <<d, d + backoff_jitter(jit, d)>>
                    /\ pc' = "fetch"
            /\ page' = page
       ELSE /\ retry_count' = retry_count
            /\ fetch_result' = "returned"
            /\ sleeps' = sleeps
            /\ backoff' = backoff
            /\ page' = IF r = 200 THEN body ELSE EmptyPage
            /\ pc' = "extract"
    /\ UNCHANGED <<db_vars, excel, retry_failed, benchmarks, start_from,
                   benchmark_ids, i, delay, total_processed, total_successful,
                   success, runs, max_retries, update_calls>>
    /\ UNCHANGED <<store_failed, aside_vars>>

Extract ==
    /\ pc = "extract"
    /\ db_resources' = extract_and_store_resources(db_resources, page.blocks, benchmark_id)
    /\ db_access_points' = extract_and_store_access_points(db_access_points, page.aps, benchmark_id)
    /\ ResetFetch
    /\ pc' = "mark"
    /\ UNCHANGED <<db_benchmarks, db_scrape_status, state_file, db_ok, run_vars_but_pc,
                   response, fetched, update_calls>>
    /\ store_failed' = (~db_ok /\ (page.aps # {} \/ \E k \in 1..Len(page.blocks) : Kept(page.blocks[k])))
    /\ UNCHANGED aside_vars

\* scrape_benchmark, lines 131-148, and the success branch of the loop
MarkSuccess ==
    /\ pc = "mark"
    /\ db_benchmarks' = store_benchmark(db_benchmarks, benchmark_id, "", "",
                                        excel[benchmark_id], "timestamp")
    /\ db_scrape_status' = update_scrape_status(db_scrape_status, benchmark_id, "success", "")
    /\ update_calls' = [update_calls EXCEPT ![benchmark_id] = @ + 1]
    /\ success' = TRUE
    /\ total_processed' = total_processed + 1
    /\ total_successful' = total_successful + 1
    /\ pc' = "save"
    /\ UNCHANGED <<db_resources, db_access_points, state_file, db_ok, excel,
                   retry_failed, benchmarks, start_from, benchmark_ids, i, delay,
                   runs, fetch_vars, fetched>>
    /\ store_failed' = (store_failed \/ ~db_ok)
    /\ UNCHANGED aside_vars

\* scrape_benchmark, lines 150-161, and the loop up to the delay
MarkFailed ==
    /\ pc = "failed"
    /\ db_scrape_status' = update_scrape_status(db_scrape_status, benchmark_id, "failed",
                                                ErrorText(response))
    /\ update_calls' = [update_calls EXCEPT ![benchmark_id] = @ + 1]
    /\ success' = FALSE
    /\ total_processed' = total_processed + 1
    /\ ResetFetch
    /\ pc' = "delay"
    /\ UNCHANGED <<db_benchmarks, db_resources, db_access_points, state_file, db_ok,
                   excel, retry_failed, benchmarks, start_from, benchmark_ids, i,
                   delay, total_successful, runs, response, fetched>>
    /\ UNCHANGED <<store_failed, aside_vars>>

SaveState ==
    /\ pc = "save"
    /\ state_file' = save_state(benchmark_id)
    /\ pc' = "delay"
    /\ UNCHANGED <<db_benchmarks, db_resources, db_access_points, db_scrape_status,
                   db_ok, run_vars_but_pc, fetch_vars, fetched, update_calls>>
    /\ UNCHANGED <<store_failed, aside_vars>>

\* actual_delay of the loop, in milliseconds, for a jitter in thousandths
ActualDelay(jitter) == delay + (jitter * delay) \div 1000

\* time.sleep raises ValueError for a negative length; the handler of the
\* loop then saves the state and the loop goes on
Delay(jitter) ==
    /\ pc = "delay"
    /\ state_file' = IF ActualDelay(jitter) < 0 THEN save_state(benchmark_id)
                     ELSE state_file
    /\ i' = i + 1
    /\ response' = NoResponse
    /\ pc' = "begin"
    /\ UNCHANGED <<db_benchmarks, db_resources, db_access_points, db_scrape_status,
                   db_ok, excel, retry_failed, benchmarks, start_from, benchmark_ids,
                   delay, total_processed, total_successful, success, runs,
                   max_retries, retry_count, page, served, sleeps, fetch_result,
                   backoff, fetched, update_calls>>
    /\ UNCHANGED <<store_failed, aside_vars>>

Finish ==
    /\ pc = "begin"
    /\ i > Len(benchmark_ids)
    /\ pc' = "complete"
    /\ UNCHANGED <<db_vars, run_vars_but_pc, fetch_vars, fetched, update_calls>>
    /\ UNCHANGED <<store_failed, aside_vars>>

\* KeyboardInterrupt is no Exception: no handler below main catches it, main
\* reports and exits, and the locals of the loop are gone with the process
Interrupt ==
    /\ pc \in Running
    /\ pc' = "interrupted"
    /\ i' = 1
    /\ success' = FALSE
    /\ total_processed' = 0
    /\ total_successful' = 0
    /\ response' = NoResponse
    /\ ResetFetch
    /\ UNCHANGED <<db_vars, excel, retry_failed, benchmarks, start_from, benchmark_ids,
                   delay, runs, fetched, update_calls>>
    /\ store_failed' = FALSE
    /\ prior' = [prior EXCEPT !.in_flight = in_flight,
                                !.succeeded = succeeded,
                                !.benchmarks = benchmarks]
    /\ UNCHANGED <<file_vars, utils_vars, more_vars, entry, visited>>

StorageFails ==
    /\ pc \in Running
    /\ db_ok
    /\ db_ok' = FALSE
    /\ UNCHANGED <<db_benchmarks, db_resources, db_access_points, db_scrape_status,
                   state_file, run_vars, fetch_vars, fetched, update_calls>>
    /\ UNCHANGED <<store_failed, aside_vars>>

StorageRecovers ==
    /\ ~db_ok
    /\ db_ok' = TRUE
    /\ UNCHANGED <<db_benchmarks, db_resources, db_access_points, db_scrape_status,
                   state_file, run_vars, fetch_vars, fetched, update_calls>>
    /\ UNCHANGED <<store_failed, aside_vars>>

----------------------------------------------------------------------------
(* A caller of DatabaseManager alone *)

Statuses == {"pending", "success", "failed"}

ApiUpdateScrapeStatus(id, status, error_message) ==
    /\ pc = "api"
    /\ update_calls[id] < MaxCalls
    /\ db_scrape_status' = update_scrape_status(db_scrape_status, id, status, error_message)
    /\ update_calls' = [update_calls EXCEPT ![id] = @ + 1]
    /\ UNCHANGED <<db_benchmarks, db_resources, db_access_points, state_file, db_ok,
                   run_vars, fetch_vars, fetched>>
    /\ pending' = <<<<>>, FALSE>>
    /\ UNCHANGED <<store_failed, file_vars, utils_vars, other_calls>>
    /\ UNCHANGED crawl_history

ApiStoreBenchmark(id) ==
    /\ pc = "api"
    /\ db_benchmarks' = store_benchmark(db_benchmarks, id, "K", "definition", excel[id], "null")
    /\ UNCHANGED <<db_resources, db_access_points, db_scrape_status, state_file, db_ok,
                   run_vars, fetch_vars, fetched, update_calls>>
    /\ pending' = <<<<>>, FALSE>>
    /\ UNCHANGED <<store_failed, file_vars, utils_vars, other_calls>>
    /\ UNCHANGED crawl_history

ApiGetPendingBenchmarks ==
    /\ pc = "api"
    /\ pending' = <<get_pending_benchmarks, TRUE>>
    /\ UNCHANGED <<db_vars, run_vars, fetch_vars, fetched, update_calls, store_failed,
                   file_vars, utils_vars, other_calls>>
    /\ UNCHANGED crawl_history

----------------------------------------------------------------------------
(* utils.py: strings.  A Python string is a sequence of one-character       *)
(* strings; str.upper, str.strip, re.sub and re.match are computed on it.   *)

UPPER == <<"A", "B", "C", "D", "E", "F", "G", "H", "I", "J", "K", "L", "M",
           "N", "O", "P", "Q", "R", "S", "T", "U", "V", "W", "X", "Y", "Z">>
LOWER == <<"a", "b", "c", "d", "e", "f", "g", "h", "i", "j", "k", "l", "m",
           "n", "o", "p", "q", "r", "s", "t", "u", "v", "w", "x", "y", "z">>
UpperLetters == SeqToSet(UPPER)
LowerLetters == SeqToSet(LOWER)
Digits == {"0", "1", "2", "3", "4", "5", "6", "7", "8", "9"}
Whitespace == {" ", "\t", "\n"}
WordChars == UpperLetters \cup LowerLetters \cup Digits \cup {"_"}

upper_char(c) ==
    IF c \in LowerLetters THEN UPPER[CHOOSE k \in 1..Len(LOWER) : LOWER[k] = c] ELSE c

\* str.upper()
upper(s) == [k \in 1..Len(s) |-> upper_char(s[k])]

RECURSIVE lstrip(_)
lstrip(s) == IF s # <<>> /\ Head(s) \in Whitespace THEN lstrip(Tail(s)) ELSE s

RECURSIVE rstrip(_)
rstrip(s) ==
    IF s # <<>> /\ s[Len(s)] \in Whitespace THEN rstrip(SubSeq(s, 1, Len(s) - 1)) ELSE s

\* str.strip()
strip(s) == rstrip(lstrip(s))

\* a substitution that forgets the underscore
re_sub_no_underscore(s) == [k \in 1..Len(s) |-> IF s[k] \in {"-", " "} THEN "." ELSE s[k]]

\* re.sub(r'[-_ ]', '.', s)
re_sub(s) == [k \in 1..Len(s) |-> IF s[k] \in {"-", "_", " "} THEN "." ELSE s[k]]

\* \b between the characters k and k+1 of s (k = 0: start, k = Len(s): end)
IsWord(s, k) == k >= 1 /\ k <= Len(s) /\ s[k] \in WordChars
Boundary(s, k) == IsWord(s, k) # IsWord(s, k + 1)

AllIn(s, a, b, S) == \A k \in a..b : s[k] \in S

\* s[a..b] matches (?:\d{1,3}|K\d{1,2}|[A-Z])
GradeToken(s, a, b) ==
    \/ (b - a + 1 \in 1..3 /\ AllIn(s, a, b, Digits))
    \/ (b - a + 1 \in 2..3 /\ s[a] = "K" /\ AllIn(s, a + 1, b, Digits))
    \/ (b = a /\ s[a] \in UpperLetters)

\* s[1..e] matches the group of BENCHMARK_PATTERN:
\* [A-Z]{2}\.(?:\d{1,3}|K\d{1,2}|[A-Z])\.[A-Z]{1,3}\.\d+\.\d+
GroupMatches(s, e) ==
    /\ e <= Len(s)
    /\ e >= 10
    /\ AllIn(s, 1, 2, UpperLetters)
    /\ s[3] = "."
    /\ \E g \in 1..3 :
          LET d2 == 4 + g
          IN  /\ d2 < e
              /\ s[d2] = "."
              /\ GradeToken(s, 4, d2 - 1)
              /\ \E m \in 1..3 :
                    LET d3 == d2 + m + 1
                    IN  /\ d3 < e
                        /\ s[d3] = "."
                        /\ AllIn(s, d2 + 1, d3 - 1, UpperLetters)
                        /\ \E d4 \in (d3 + 2)..(e - 1) :
                              /\ s[d4] = "."
                              /\ AllIn(s, d3 + 1, d4 - 1, Digits)
                              /\ AllIn(s, d4 + 1, e, Digits)

\* the positions at which a match of the group can end
GroupEnds(s) == {e \in 1..Len(s) : GroupMatches(s, e)}

\* re.match(BENCHMARK_PATTERN, s): anchored at the start of s only
re_match(s) == Boundary(s, 0) /\ \E e \in GroupEnds(s) : Boundary(s, e)

\* a normaliser that tests the stripped string and returns the unstripped one
normalize_benchmark_format_unstripped(raw) ==
    LET query1 == strip(upper(raw))
        query2 == re_sub(query1)
    IN  IF re_match(query2) THEN re_sub(upper(raw)) ELSE None

normalize_benchmark_format(raw) ==
    LET query1 == strip(upper(raw))
        query2 == re_sub(query1)
    IN  IF re_match(query2) THEN query2 ELSE None

\* ---- the raw strings a user may type ----

MaxPad == 1

Pads == {[k \in 1..n |-> " "] : n \in 0..MaxPad}
Subjects == {<<"M", "A">>, <<"m", "a">>}
Grades == {<<"K">>, <<"k", "1", "2">>, <<"1", "2">>}
Strands == {<<"N", "S", "O">>, <<"a", "r">>}
Standards == {<<"1">>}
Numbers == {<<"1">>, <<"2", "3">>}
Separators == {".", "-", "_", " "}
Trailers == {<<>>, <<".", "X", "Y", "Z">>}

Join(s1, p1, s2, p2, s3, p3, s4, p4, s5) ==
    s1 \o <<p1>> \o s2 \o <<p2>> \o s3 \o <<p3>> \o s4 \o <<p4>> \o s5

FiveSegments ==
    {Join(s1, p1, s2, p2, s3, p3, s4, p4, s5) :
        s1 \in Subjects, s2 \in Grades, s3 \in Strands, s4 \in Standards,
        s5 \in Numbers, p1 \in Separators, p2 \in Separators, p3 \in Separators,
        p4 \in Separators}

Malformed ==
    {<<>>,
     <<"i", "n", "v", "a", "l", "i", "d">>,
     <<"M", ".", "K", ".", "N", "S", "O", ".", "1", ".", "1">>,
     <<"M", "A", ".", "1", "2", "3", "4", ".", "N", "S", "O", ".", "1", ".", "1">>,
     <<"M", "A", ".", "K", ".", "N", "S", "O">>,
     <<"1", "2", "3", ".", "4", "5", "6">>,
     <<"M", "A", ".", "K", ".", "N", "S", "O", ".", "1", ".", "1", "\t">>,
     <<"M", "A", ".", "K", ".", "N", "S", "O", ".", "1", ".", "1", "A">>,
     <<"M", "A", ".", "K", ".", "N", "S", "O", ".", "A", ".", "1">>}

RawQueries ==
    {l \o body \o t \o r : l \in Pads, body \in FiveSegments, t \in Trailers, r \in Pads}
        \cup Malformed

\* one call of normalize_benchmark_format on the user's string
NormalizeQuery ==
    /\ pc = "normalize"
    /\ normalized' = normalize_benchmark_format(query)
    /\ pc' = "renormalize"
    /\ UNCHANGED <<db_vars, run_vars_but_pc, fetch_vars, fetched, update_calls,
                   store_failed, file_vars, query, renormalized, benchmark_list,
                   scores, result, scored, more_vars>>
    /\ UNCHANGED crawl_history

\* a caller hands the string it got back to normalize_benchmark_format again
Renormalize ==
    /\ pc = "renormalize"
    /\ normalized # None
    /\ renormalized' = normalize_benchmark_format(normalized)
    /\ pc' = "normalized"
    /\ UNCHANGED <<db_vars, run_vars_but_pc, fetch_vars, fetched, update_calls,
                   store_failed, file_vars, query, normalized, benchmark_list,
                   scores, result, scored, more_vars>>
    /\ UNCHANGED crawl_history

\* ---- find_closest_benchmark ----

FUZZY_MATCH_THRESHOLD == 80

MaxList == 2

Id11 == Join(<<"M", "A">>, ".", <<"K">>, ".", <<"N", "S", "O">>, ".", <<"1">>, ".", <<"1">>)
Id12 == Join(<<"M", "A">>, ".", <<"K">>, ".", <<"N", "S", "O">>, ".", <<"1">>, ".", <<"2">>)
IdK12 == Join(<<"M", "A">>, ".", <<"K", "1", "2">>, ".", <<"M", "T", "R">>, ".", <<"1">>, ".", <<"1">>)
KnownIds == {Id11, Id12, IdK12}
KnownLists == UNION {[1..n -> KnownIds] : n \in 0..MaxList}

ScoreValues == {0, 79, 80, 100}

MatchQueries ==
    {<<"m", "a", "-", "k", "-", "n", "s", "o", "-", "1", "-", "1">>,
     <<" ", "M", "A", ".", "K", "1", "2", ".", "M", "T", "R", ".", "1", ".", "1">>,
     Join(<<"M", "A">>, ".", <<"K">>, ".", <<"N", "S", "O">>, ".", <<"1">>, ".", <<"3">>),
     Id11 \o <<".", "X", "Y", "Z">>,
     <<"i", "n", "v", "a", "l", "i", "d">>,
     <<"M", "A", ".", "K", ".", "N", "S", "O">>,
     <<>>}

\* an extractOne that hands back the query with the best score
extractOne_echo(q, choices) ==
    LET best == CHOOSE k \in 1..Len(choices) :
                    /\ \A j \in 1..Len(choices) : scores[choices[j]] <= scores[choices[k]]
                    /\ \A j \in 1..(k - 1) : scores[choices[j]] < scores[choices[k]]
    IN  <<q, scores[choices[best]]>>

\* process.extractOne(q, choices) for a non-empty list: the first candidate of
\* the highest score, and that score; the score of a candidate is scores[c]
extractOne(q, choices) ==
    LET best == CHOOSE k \in 1..Len(choices) :
                    /\ \A j \in 1..Len(choices) : scores[choices[j]] <= scores[choices[k]]
                    /\ \A j \in 1..(k - 1) : scores[choices[j]] < scores[choices[k]]
    IN  <<choices[best], scores[choices[best]]>>

\* a threshold that rejects the score 80 itself
AcceptStrictly(score) == score > FUZZY_MATCH_THRESHOLD

\* score >= FUZZY_MATCH_THRESHOLD
Accept(score) == score >= FUZZY_MATCH_THRESHOLD

Invalid == [match |-> None, message |-> <<"Invalid benchmark format.", None>>, scored |-> FALSE]
Exact(id) == [match |-> id, message |-> <<"Exact match found for", id>>, scored |-> FALSE]
Fuzzy(id) == [match |-> id, message |-> <<"Did you mean", id>>, scored |-> TRUE]
NoMatch(called) == [match |-> None, message |-> <<"No matching benchmark found.", None>>,
                    scored |-> called]

\* a matcher that scores the candidates before it looks for the exact id
find_closest_benchmark_fuzzy_first(raw, list) ==
    LET normalized_benchmark == normalize_benchmark_format(raw)
    IN  IF normalized_benchmark = None THEN Invalid
        ELSE IF list # <<>> /\ Accept(extractOne(normalized_benchmark, list)[2])
             THEN Fuzzy(extractOne(normalized_benchmark, list)[1])
        ELSE IF normalized_benchmark \in SeqToSet(list) THEN Exact(normalized_benchmark)
        ELSE NoMatch(list # <<>>)

find_closest_benchmark(raw, list) ==
    LET normalized_benchmark == normalize_benchmark_format(raw)
    IN  IF normalized_benchmark = None THEN Invalid
        ELSE IF normalized_benchmark \in SeqToSet(list) THEN Exact(normalized_benchmark)
        ELSE IF list # <<>> /\ Accept(extractOne(normalized_benchmark, list)[2])
             THEN Fuzzy(extractOne(normalized_benchmark, list)[1])
        ELSE NoMatch(list # <<>>)

\* one call of find_closest_benchmark
FindClosest ==
    /\ pc = "match"
    /\ LET r == find_closest_benchmark(query, benchmark_list)
       IN  /\ result' = <<r.match, r.message>>
           /\ scored' = r.scored
    /\ pc' = "matched"
    /\ UNCHANGED <<db_vars, run_vars_but_pc, fetch_vars, fetched, update_calls,
                   store_failed, file_vars, query, normalized, renormalized,
                   benchmark_list, scores, more_vars>>
    /\ UNCHANGED crawl_history

\* ---- a caller of save_state and load_state alone ----

\* where a save_state call may meet an OSError
Faults == {"none", "open", "dump", "replace"}

ApiSaveState(id, fault) ==
    /\ pc = "file"
    /\ temp_file' = IF fault = "dump" THEN Truncated(save_state(id))
                    ELSE IF fault = "replace" THEN save_state(id)
                    ELSE IF fault = "none" THEN None
                    ELSE temp_file
    /\ state_file' = IF fault = "none" THEN save_state(id) ELSE state_file
    /\ last_save' = <<id, fault = "none">>
    /\ ever_saved' = (ever_saved \/ fault = "none")
    /\ loaded' = <<loaded[1], FALSE>>
    /\ UNCHANGED <<db_benchmarks, db_resources, db_access_points, db_scrape_status,
                   db_ok, run_vars, fetch_vars, fetched, update_calls, store_failed,
                   saving, previous, utils_vars, more_vars>>
    /\ UNCHANGED crawl_history

ApiLoadState ==
    /\ pc = "file"
    /\ loaded' = <<load_state, TRUE>>
    /\ UNCHANGED <<db_vars, run_vars, fetch_vars, fetched, update_calls, store_failed,
                   temp_file, last_save, ever_saved, saving, previous, utils_vars, more_vars>>
    /\ UNCHANGED crawl_history

\* ---- save_state statement by statement, in a process that may die ----

\* the file open(temp_file, 'w') leaves: it exists and holds no text yet
EmptyFile == <<<<>>>>

\* a save_state that opens the state file itself for writing
WrittenFileIsStateFile == "state"

\* the file save_state writes the JSON text to: temp_file, line 382
WrittenFile == "temp"

\* os.replace(src, dst): the text of dst afterwards
os_replace(src, dst) == src

SaveBegin(id) ==
    /\ pc = "ckpt"
    /\ saving' = id
    /\ previous' = state_file
    /\ loaded' = <<loaded[1], FALSE>>
    /\ pc' = "open"
    /\ UNCHANGED <<db_vars, run_vars_but_pc, fetch_vars, fetched, update_calls,
                   store_failed, temp_file, last_save, ever_saved, utils_vars, more_vars>>
    /\ UNCHANGED crawl_history

\* with open(temp_file, 'w') as f
SaveOpen ==
    /\ pc = "open"
    /\ IF WrittenFile = "temp"
       THEN temp_file' = EmptyFile /\ state_file' = state_file
       ELSE state_file' = EmptyFile /\ temp_file' = temp_file
    /\ pc' = "dump"
    /\ UNCHANGED <<db_benchmarks, db_resources, db_access_points, db_scrape_status,
                   db_ok, run_vars_but_pc, fetch_vars, fetched, update_calls,
                   store_failed, last_save, ever_saved, loaded, saving, previous,
                   utils_vars, more_vars>>
    /\ UNCHANGED crawl_history

\* json.dump: the buffer may reach the file in parts
SaveDump(whole) ==
    /\ pc \in {"dump", "flushed"}
    /\ (pc = "flushed" => whole)
    /\ LET text == IF whole THEN save_state(saving) ELSE Truncated(save_state(saving))
       IN  IF WrittenFile = "temp"
           THEN temp_file' = text /\ state_file' = state_file
           ELSE state_file' = text /\ temp_file' = temp_file
    /\ pc' = IF whole THEN "replace" ELSE "flushed"
    /\ UNCHANGED <<db_benchmarks, db_resources, db_access_points, db_scrape_status,
                   db_ok, run_vars_but_pc, fetch_vars, fetched, update_calls,
                   store_failed, last_save, ever_saved, loaded, saving, previous,
                   utils_vars, more_vars>>
    /\ UNCHANGED crawl_history

\* os.replace(temp_file, self.state_file) and return True
SaveReplace ==
    /\ pc = "replace"
    /\ IF WrittenFile = "temp"
       THEN state_file' = os_replace(temp_file, state_file) /\ temp_file' = None
       ELSE state_file' = state_file /\ temp_file' = temp_file
    /\ last_save' = <<saving, TRUE>>
    /\ ever_saved' = TRUE
    /\ pc' = "ckpt"
    /\ UNCHANGED <<db_benchmarks, db_resources, db_access_points, db_scrape_status,
                   db_ok, run_vars_but_pc, fetch_vars, fetched, update_calls,
                   store_failed, loaded, saving, previous, utils_vars, more_vars>>
    /\ UNCHANGED crawl_history

\* the process is killed inside save_state; the files stay as they are
Crash ==
    /\ pc \in {"open", "dump", "flushed", "replace"}
    /\ pc' = "crashed"
    /\ UNCHANGED <<db_vars, run_vars_but_pc, fetch_vars, fetched, update_calls,
                   store_failed, aside_vars>>

\* a later process calls load_state
Restart ==
    /\ pc \in {"ckpt", "crashed"}
    /\ loaded' = <<load_state, TRUE>>
    /\ pc' = "ckpt"
    /\ UNCHANGED <<db_vars, run_vars_but_pc, fetch_vars, fetched, update_calls,
                   store_failed, temp_file, last_save, ever_saved, saving, previous,
                   utils_vars, more_vars>>
    /\ UNCHANGED crawl_history

\* ---- a caller of _extract_and_store_resources alone ----

MaxBlocks == 3

BlockKinds ==
    {LessonBlock, AssessmentBlock, OtherBlock,
     Block(FALSE, "Lesson Plan", "none", "none", "none"),
     Block(TRUE, "none", "none", "Lesson Plan", "none"),
     Block(TRUE, "none", "none", "none", "Formative Assessment"),
     Block(TRUE, "none", "none", "none", "none")}

BlockLists == UNION {[1..n -> BlockKinds] : n \in 0..MaxBlocks}

ApiExtractResources(id) ==
    /\ pc = "extractor"
    /\ db_resources' = extract_and_store_resources(db_resources, page.blocks, id)
    /\ found' = <<resources_count(page.blocks), Len(db_resources)>>
    /\ benchmark_ids' = <<id>>
    /\ pc' = "extracted"
    /\ UNCHANGED <<db_benchmarks, db_access_points, db_scrape_status, state_file, db_ok,
                   excel, retry_failed, benchmarks, start_from, i, delay,
                   total_processed, total_successful, success, runs, fetch_vars,
                   fetched, update_calls, store_failed, file_vars, utils_vars, pending,
                   store_log>>
    /\ UNCHANGED crawl_history

\* ---- the resource and access point tables, called directly ----

MaxRows == 4

StoreIds == {A, B}
ApIds == {"MA.K.NSO.1.AP.1", "MA.K.NSO.1.AP.2"}

\* the markup every scrape of the store specification meets: two kept
\* resources and one of another type
Markup == <<LessonBlock, AssessmentBlock, OtherBlock>>

NoCalls == [scrapes |-> [b \in StoreIds |-> 0],
            stores |-> [b \in StoreIds |-> 0],
            ap_stores |-> [ap \in ApIds |-> 0],
            latest |-> [ap \in ApIds |-> None]]

ApiStoreResource(id, resource_type) ==
    /\ pc = "store"
    /\ Len(db_resources) < MaxRows
    /\ db_resources' = store_resource(db_resources, id, resource_type)
    /\ store_log' = [store_log EXCEPT !.stores[id] = @ + 1]
    /\ UNCHANGED <<db_benchmarks, db_access_points, db_scrape_status, state_file, db_ok,
                   run_vars, fetch_vars, fetched, update_calls, store_failed,
                   file_vars, utils_vars, pending, found>>
    /\ UNCHANGED crawl_history

\* _extract_and_store_resources on a page fetched once more
ApiScrapeAgain(id) ==
    /\ pc = "store"
    /\ Len(db_resources) + 2 <= MaxRows
    /\ db_resources' = extract_and_store_resources(db_resources, Markup, id)
    /\ store_log' = [store_log EXCEPT !.scrapes[id] = @ + 1]
    /\ UNCHANGED <<db_benchmarks, db_access_points, db_scrape_status, state_file, db_ok,
                   run_vars, fetch_vars, fetched, update_calls, store_failed,
                   file_vars, utils_vars, pending, found>>
    /\ UNCHANGED crawl_history

ApiStoreAccessPoint(access_point_id, id) ==
    /\ pc = "store"
    /\ store_log.ap_stores[access_point_id] < MaxCalls
    /\ db_access_points' = store_access_point(db_access_points, access_point_id, id)
    /\ store_log' = [store_log EXCEPT !.ap_stores[access_point_id] = @ + 1,
                                      !.latest[access_point_id] = id]
    /\ UNCHANGED <<db_benchmarks, db_resources, db_scrape_status, state_file, db_ok,
                   run_vars, fetch_vars, fetched, update_calls, store_failed,
                   file_vars, utils_vars, pending, found>>
    /\ UNCHANGED crawl_history

----------------------------------------------------------------------------
(* Specifications *)

Excels == {[b \in ExcelIds |-> Url], [b \in ExcelIds |-> IF b = B THEN NoUrl ELSE Url]}

\* no checkpoint is being written
InitFile ==
    /\ temp_file = None
    /\ last_save = <<None, FALSE>>
    /\ ever_saved = FALSE
    /\ loaded = <<None, FALSE>>
    /\ saving = None
    /\ previous = None

\* no call of utils.py is in progress
\* no result of a single call is held
InitMore ==
    /\ pending = <<<<>>, FALSE>>
    /\ found = <<0, 0>>
    /\ store_log = NoCalls
    /\ prior = NoPrior
    /\ entry = <<0, 0>>
    /\ visited = <<>>

InitUtils ==
    /\ query = <<>>
    /\ normalized = None
    /\ renormalized = None
    /\ benchmark_list = <<>>
    /\ scores = <<>>
    /\ result = <<>>
    /\ scored = FALSE

InitStore ==
    /\ db_benchmarks = <<>>
    /\ db_resources = <<>>
    /\ db_access_points = <<>>
    /\ db_scrape_status = <<>>
    /\ state_file = None
    /\ db_ok = TRUE
    /\ update_calls = [b \in ExcelIds |-> 0]
    /\ store_failed = FALSE

InitProcess ==
    /\ retry_failed = FALSE
    /\ benchmarks = {}
    /\ start_from = None
    /\ benchmark_ids = <<>>
    /\ i = 1
    /\ delay = 1000
    /\ total_processed = 0
    /\ total_successful = 0
    /\ success = FALSE
    /\ max_retries = DefaultMaxRetries
    /\ retry_count = 0
    /\ response = NoResponse
    /\ page = NoPage
    /\ runs = 0
    /\ fetched = {}
    /\ served = <<>>
    /\ sleeps = 0
    /\ backoff = <<0, 0>>
    /\ fetch_result = "none"

\* the crawl: processes started one after the other on an empty store
Init ==
    /\ InitStore
    /\ InitFile
    /\ InitMore
    /\ InitUtils
    /\ InitProcess
    /\ excel \in Excels
    /\ pc = "idle"

Crawl ==
    \/ \E args \in Args : StartRun(args)
    \/ SkipItem
    \/ BeginItem
    \/ \E r \in CrawlResponses, body \in Pages, jit \in Jitter : Attempt(r, body, jit)
    \/ Extract
    \/ MarkSuccess
    \/ MarkFailed
    \/ SaveState
    \/ \E jitter \in Jitter : Delay(jitter)
    \/ Finish

Next == Crawl \/ Interrupt

Spec == Init /\ [][Next]_vars

\* the store and the checkpoint file as a crawl that fetched every id with
\* success has left them
CrawledOnce ==
    /\ db_benchmarks = [b \in ExcelIds |->
                           IF excel[b] = NoUrl
                           THEN BenchmarkRow("K", "definition", NoUrl, "null")
                           ELSE BenchmarkRow("", "", Url, "timestamp")]
    /\ db_resources = <<>>
    /\ db_access_points = <<>>
    /\ db_scrape_status = [b \in {x \in ExcelIds : excel[x] # NoUrl} |->
                              [status |-> "success", attempt_count |-> 2,
                               error_message |-> ""]]
    /\ state_file = save_state(C)
    /\ db_ok = TRUE
    /\ update_calls = [b \in ExcelIds |-> IF excel[b] = NoUrl THEN 0 ELSE 2]
    /\ store_failed = FALSE

\* processes started one after the other when a crawl has gone before
InitResume ==
    /\ excel \in Excels
    /\ CrawledOnce
    /\ InitFile
    /\ InitMore
    /\ InitUtils
    /\ InitProcess
    /\ pc = "idle"

SpecResume == InitResume /\ [][Next]_vars

\* one run of the crawl that nothing interrupts: the loop takes its next step
\* whenever it has one
InitTerminate ==
    /\ InitStore
    /\ InitFile
    /\ InitMore
    /\ InitUtils
    /\ excel \in Excels
    /\ pc = "idle"
    /\ retry_failed = FALSE
    /\ benchmarks = {}
    /\ start_from = None
    /\ benchmark_ids = <<>>
    /\ i = 1
    /\ delay = 1000
    /\ total_processed = 0
    /\ total_successful = 0
    /\ success = FALSE
    /\ max_retries = DefaultMaxRetries
    /\ retry_count = 0
    /\ response = NoResponse
    /\ page = NoPage
    /\ runs = MaxRuns - 1
    /\ fetched = {}
    /\ served = <<>>
    /\ sleeps = 0
    /\ backoff = <<0, 0>>
    /\ fetch_result = "none"

SpecTerminate == InitTerminate /\ [][Crawl]_vars /\ WF_vars(Crawl)

\* the last process of the crawl, on a store that may fail
InitFault ==
    /\ InitStore
    /\ InitFile
    /\ InitMore
    /\ InitUtils
    /\ excel \in Excels
    /\ pc = "idle"
    /\ retry_failed = FALSE
    /\ benchmarks = {}
    /\ start_from = None
    /\ benchmark_ids = <<>>
    /\ i = 1
    /\ delay = 1000
    /\ total_processed = 0
    /\ total_successful = 0
    /\ success = FALSE
    /\ max_retries = DefaultMaxRetries
    /\ retry_count = 0
    /\ response = NoResponse
    /\ page = NoPage
    /\ runs = MaxRuns - 1
    /\ fetched = {}
    /\ served = <<>>
    /\ sleeps = 0
    /\ backoff = <<0, 0>>
    /\ fetch_result = "none"

NextFault == Next \/ StorageFails \/ StorageRecovers

SpecFault == InitFault /\ [][NextFault]_vars

\* the fetcher alone, for every max_retries up to the bound
InitFetch ==
    /\ InitStore
    /\ InitFile
    /\ InitMore
    /\ InitUtils
    /\ excel = [b \in ExcelIds |-> Url]
    /\ retry_failed = FALSE
    /\ benchmarks = {A}
    /\ start_from = None
    /\ benchmark_ids = <<A>>
    /\ i = 1
    /\ delay = 1000
    /\ total_processed = 0
    /\ total_successful = 0
    /\ success = FALSE
    /\ max_retries \in 0..MaxRetriesArg
    /\ retry_count = 0
    /\ response = NoResponse
    /\ page = NoPage
    /\ runs = 1
    /\ fetched = {}
    /\ served = <<>>
    /\ sleeps = 0
    /\ backoff = <<0, 0>>
    /\ fetch_result = "none"
    /\ pc = "fetch"

NextFetch == \E r \in Responses, body \in Pages, jit \in Jitter : Attempt(r, body, jit)

SpecFetch == InitFetch /\ [][NextFetch]_vars

\* a caller of the store alone
InitDb ==
    /\ InitStore
    /\ InitFile
    /\ InitMore
    /\ InitUtils
    /\ InitProcess
    /\ excel = [b \in ExcelIds |-> Url]
    /\ pc = "api"

NextDb ==
    \/ \E id \in ExcelIds, status \in Statuses, msg \in {"", "error"} :
          ApiUpdateScrapeStatus(id, status, msg)
    \/ \E id \in ExcelIds : ApiStoreBenchmark(id)
    \/ ApiGetPendingBenchmarks

SpecDb == InitDb /\ [][NextDb]_vars

\* the resource and access point tables alone, on an empty store
InitStoreCalls ==
    /\ InitStore
    /\ InitFile
    /\ InitMore
    /\ InitUtils
    /\ InitProcess
    /\ excel = [b \in ExcelIds |-> Url]
    /\ pc = "store"

NextStore ==
    \/ \E id \in StoreIds, resource_type \in {"Lesson Plan", "Formative Assessment"} :
          ApiStoreResource(id, resource_type)
    \/ \E id \in StoreIds : ApiScrapeAgain(id)
    \/ \E ap \in ApIds, id \in StoreIds : ApiStoreAccessPoint(ap, id)

SpecStore == InitStoreCalls /\ [][NextStore]_vars

\* the normaliser alone, on every raw string of RawQueries
InitNormalize ==
    /\ InitStore
    /\ InitFile
    /\ InitMore
    /\ InitProcess
    /\ excel = [b \in ExcelIds |-> Url]
    /\ pc = "normalize"
    /\ query \in RawQueries
    /\ normalized = None
    /\ renormalized = None
    /\ benchmark_list = <<>>
    /\ scores = <<>>
    /\ result = <<>>
    /\ scored = FALSE

NextNormalize == NormalizeQuery \/ Renormalize

SpecNormalize == InitNormalize /\ [][NextNormalize]_vars


\* the matcher alone, for every query, known list and scoring
InitMatch ==
    /\ InitStore
    /\ InitFile
    /\ InitMore
    /\ InitProcess
    /\ excel = [b \in ExcelIds |-> Url]
    /\ pc = "match"
    /\ query \in MatchQueries
    /\ normalized = None
    /\ renormalized = None
    /\ benchmark_list \in KnownLists
    /\ scores \in [KnownIds -> ScoreValues]
    /\ result = <<>>
    /\ scored = FALSE

NextMatch == FindClosest

SpecMatch == InitMatch /\ [][NextMatch]_vars

\* a caller of the checkpoint alone
InitCheckpoint ==
    /\ InitStore
    /\ InitFile
    /\ InitMore
    /\ InitUtils
    /\ InitProcess
    /\ excel = [b \in ExcelIds |-> Url]
    /\ pc = "file"

NextCheckpoint ==
    \/ \E id \in StartIds, fault \in Faults : ApiSaveState(id, fault)
    \/ ApiLoadState

SpecCheckpoint == InitCheckpoint /\ [][NextCheckpoint]_vars

\* save_state step by step, with crashes between the steps
InitCrash ==
    /\ InitStore
    /\ InitFile
    /\ InitMore
    /\ InitUtils
    /\ InitProcess
    /\ excel = [b \in ExcelIds |-> Url]
    /\ pc = "ckpt"

NextCrash ==
    \/ \E id \in StartIds : SaveBegin(id)
    \/ SaveOpen
    \/ \E whole \in BOOLEAN : SaveDump(whole)
    \/ SaveReplace
    \/ Crash
    \/ Restart

SpecCrash == InitCrash /\ [][NextCrash]_vars

\* the resource extractor alone, on every list of blocks up to MaxBlocks
InitExtract ==
    /\ db_benchmarks = <<>>
    /\ db_resources \in {<<>>, <<[benchmark_id |-> A, resource_type |-> "Lesson Plan"]>>}
    /\ db_access_points = <<>>
    /\ db_scrape_status = <<>>
    /\ state_file = None
    /\ db_ok \in BOOLEAN
    /\ update_calls = [b \in ExcelIds |-> 0]
    /\ store_failed = FALSE
    /\ InitFile
    /\ InitMore
    /\ InitUtils
    /\ excel = [b \in ExcelIds |-> Url]
    /\ retry_failed = FALSE
    /\ benchmarks = {}
    /\ start_from = None
    /\ benchmark_ids = <<>>
    /\ i = 1
    /\ delay = 1000
    /\ total_processed = 0
    /\ total_successful = 0
    /\ success = FALSE
    /\ max_retries = DefaultMaxRetries
    /\ retry_count = 0
    /\ response = 200
    /\ page \in {[blocks |-> bl, aps |-> {}] : bl \in BlockLists}
    /\ runs = 1
    /\ fetched = {}
    /\ served = <<>>
    /\ sleeps = 0
    /\ backoff = <<0, 0>>
    /\ fetch_result = "returned"
    /\ pc = "extractor"

NextExtract == \E id \in {A, B} : ApiExtractResources(id)

SpecExtract == InitExtract /\ [][NextExtract]_vars

----------------------------------------------------------------------------
(* Properties *)

StatusOf(b) == IF b \in DOMAIN db_scrape_status THEN db_scrape_status[b].status ELSE "absent"

\* the failures the fetcher is to retry: the five status codes and transport errors
RetryableFailure(r) == r \in {429, 500, 502, 503, 504} \/ r = ConnectionError

AllRetryable(n) == \A j \in 1..n : RetryableFailure(served[j])

\* C1: after an uninterrupted run resumed from X, the ids fetched are exactly
\* the ids of the working set (that have a URL to fetch) lexically greater
\* than X, whether or not X is a member of the working set.
C1_ResumeStrictlyAfter ==
    (pc = "complete" /\ start_from # None)
        => fetched = {b \in benchmarks : LexLess(start_from, b) /\ excel[b] # NoUrl}

\* C2: a non-retryable error response (404) ends the fetch in a failure, never
\* in a returned body, and the item ends with status failed.
C2_NonRetryableFails ==
    (response = 404)
        => /\ fetch_result # "returned"
           /\ pc \notin {"extract", "mark", "save"}
           /\ (pc = "delay" => StatusOf(benchmark_id) = "failed")

\* C3: for every k <= max_retries, while the first k responses are retryable
\* failures the fetcher has slept k times and goes on to request k+1, and if
\* response k+1 is a 200 the fetch has made exactly k+1 requests, slept exactly
\* k times and returned that response.
C3_RetriesThenSuccess ==
    \A k \in 0..max_retries :
        (Len(served) >= k /\ AllRetryable(k))
            => /\ (Len(served) = k => (fetch_result = "none" /\ sleeps = k))
               /\ ((Len(served) > k /\ served[k + 1] = 200)
                       => /\ Len(served) = k + 1
                          /\ sleeps = k
                          /\ fetch_result = "returned"
                          /\ response = 200
                          /\ page \in Pages)

C3_Witness ==
    /\ max_retries = DefaultMaxRetries
    /\ served = <<503, 503, 200>>
    /\ sleeps = 2
    /\ fetch_result = "returned"

\* C4: when every response is a retryable failure the fetcher makes exactly
\* max_retries + 1 requests and max_retries sleeps and then raises the error of
\* the last attempt; it does not sleep after the last attempt and requests
\* nothing after it.
C4_RetriesExhausted ==
    AllRetryable(Len(served))
        => /\ Len(served) <= max_retries + 1
           /\ sleeps = (IF Len(served) <= max_retries THEN Len(served) ELSE max_retries)
           /\ (fetch_result = "raised" <=> Len(served) = max_retries + 1)
           /\ (fetch_result = "raised" => (response = served[Len(served)] /\ pc = "failed"))
           /\ fetch_result # "returned"

C4_Witness ==
    /\ max_retries = DefaultMaxRetries
    /\ Len(served) = DefaultMaxRetries + 1
    /\ AllRetryable(Len(served))
    /\ sleeps = DefaultMaxRetries
    /\ fetch_result = "raised"

\* C5: for every id the attempt_count stored equals the number of
\* update_scrape_status calls made for that id so far (no record before the
\* first call, 1 after it, one more after each later call), whatever the
\* statuses and whatever calls were made for other ids in between.
C5_AttemptCountCountsCalls ==
    \A b \in ExcelIds :
        IF update_calls[b] = 0
        THEN b \notin DOMAIN db_scrape_status
        ELSE /\ b \in DOMAIN db_scrape_status
             /\ db_scrape_status[b].attempt_count = update_calls[b]

C5_Witness ==
    /\ update_calls[A] = MaxCalls
    /\ update_calls[B] = 1
    /\ A \in DOMAIN db_scrape_status
    /\ B \in DOMAIN db_scrape_status
    /\ db_scrape_status[A].attempt_count = MaxCalls
    /\ db_scrape_status[A].status = "failed"
    /\ db_scrape_status[B].attempt_count = 1

\* C6: the checkpoint file changes only in the step that follows a scrape
\* which returned success; an item whose scrape failed never changes it.
C6_CheckpointOnlyAfterSuccess ==
    [][(state_file' # state_file) => (pc = "save" /\ success)]_vars

\* C7: when the item just processed met a failure (its fetch ended on an error
\* response), its scrape status is failed and carries an error message.
C7_FailureRecorded ==
    (pc = "delay" /\ response # 200)
        => /\ StatusOf(benchmark_id) = "failed"
           /\ db_scrape_status[benchmark_id].error_message # ""

\* C8: when a run is complete every id of its working set has the status
\* success or failed, ids without a source URL included.
C8_CompleteAllProcessed ==
    (pc = "complete")
        => \A b \in SeqToSet(benchmark_ids) : StatusOf(b) \in {"success", "failed"}

\* C9: an interrupted run leaves no item with status pending.
C9_InterruptAtItemBoundary ==
    (pc = "interrupted") => \A b \in benchmarks : StatusOf(b) # "pending"

\* C10: a run started in retry-failed mode (and from no resume point) works on
\* exactly the ids get_pending_benchmarks reports.
C10_RetryFailedWorksOnPending ==
    (pc = "begin" /\ i = 1 /\ retry_failed /\ start_from = None)
        => benchmarks = SeqToSet(get_pending_benchmarks)

\* C11: a storage failure while an item is processed is fatal: an item for
\* which persisting the benchmark row, a resource or an access point failed
\* is never given the status success, and the run does not go on to save a
\* checkpoint for it.
C11_StorageFailureIsFatal ==
    store_failed
        => /\ pc \notin {"save", "delay"}
           /\ StatusOf(benchmark_id) # "success"

\* C12: once a benchmark is stored, no step of a crawl changes its stored
\* definition, grade level or subject.
C12_AttributesImmutable ==
    [][\A b \in DOMAIN db_benchmarks :
          /\ b \in DOMAIN db_benchmarks'
          /\ db_benchmarks'[b].definition = db_benchmarks[b].definition
          /\ db_benchmarks'[b].grade_level = db_benchmarks[b].grade_level
          /\ db_benchmarks'[b].subject = db_benchmarks[b].subject]_vars

\* the benchmark grammar: the whole of s is two uppercase letters, a grade
\* token, one to three uppercase letters and two numbers, joined by dots
WellFormed(s) == Len(s) \in GroupEnds(s)

lower_char(c) ==
    IF c \in UpperLetters THEN LOWER[CHOOSE k \in 1..Len(UPPER) : UPPER[k] = c] ELSE c

\* q is c with letters in either case, dots replaced by any separator and
\* whitespace added in front and behind
VariantOf(c, q) ==
    \E l \in 0..(Len(q) - Len(c)) :
        /\ AllIn(q, 1, l, Whitespace)
        /\ AllIn(q, l + Len(c) + 1, Len(q), Whitespace)
        /\ \A k \in 1..Len(c) :
              IF c[k] = "."
              THEN q[l + k] \in Separators
              ELSE q[l + k] \in {c[k], lower_char(c[k])}

CanonicalIds ==
    {c \in {upper(Join(s1, ".", s2, ".", s3, ".", s4, ".", s5)) :
               s1 \in Subjects, s2 \in Grades, s3 \in Strands, s4 \in Standards,
               s5 \in Numbers} : WellFormed(c)}

\* C13: whatever the raw string, normalize_benchmark_format returns None or a
\* string that matches the benchmark grammar in its entirety, with nothing
\* before or after the id.
C13_NormalizedIsWellFormed ==
    (pc \in {"renormalize", "normalized"})
        => (normalized = None \/ WellFormed(normalized))

\* C14: every raw string obtained from a well-formed id c by changing the case
\* of letters, adding whitespace around it or replacing dots by '-', '_' or
\* ' ' normalizes to exactly c.
C14_VariantsNormalizeToCanonical ==
    (pc \in {"renormalize", "normalized"})
        => \A c \in CanonicalIds : VariantOf(c, query) => normalized = c

C14_Witness ==
    /\ pc = "renormalize"
    /\ query = <<" ", "m", "a", "-", "k", "1", "2", "_", "a", "r", " ", "1", ".", "2", "3", " ">>
    /\ normalized = <<"M", "A", ".", "K", "1", "2", ".", "A", "R", ".", "1", ".", "2", "3">>
    /\ normalized \in CanonicalIds

\* C15: normalisation is idempotent: when normalize_benchmark_format(x) is not
\* None, normalizing that result again returns the same string.
C15_NormalizeIdempotent ==
    (pc = "normalized") => renormalized = normalized

C15_Witness ==
    /\ pc = "normalized"
    /\ query = <<" ", "m", "a", "_", "K", " ", "a", "r", "-", "1", ".", "1", ".", "X", "Y", "Z">>
    /\ normalized = <<"M", "A", ".", "K", ".", "A", "R", ".", "1", ".", "1", ".", "X", "Y", "Z">>
    /\ renormalized = normalized

\* the highest score in the known list
MaxScore == CHOOSE m \in ScoreValues :
                /\ \E k \in 1..Len(benchmark_list) : scores[benchmark_list[k]] = m
                /\ \A k \in 1..Len(benchmark_list) : scores[benchmark_list[k]] <= m

Known == SeqToSet(benchmark_list)

\* C16: whenever the normalized query is a member of the known list the result
\* is that id with the Exact message and no similarity score was computed,
\* whatever the scores of the members of the list.
C16_ExactShortCircuits ==
    (pc = "matched" /\ normalize_benchmark_format(query) \in Known)
        => /\ result = <<normalize_benchmark_format(query),
                         <<"Exact match found for", normalize_benchmark_format(query)>>>>
           /\ ~scored

C16_Witness ==
    /\ pc = "matched"
    /\ query = <<"m", "a", "-", "k", "-", "n", "s", "o", "-", "1", "-", "1">>
    /\ benchmark_list = <<Id12, Id11>>
    /\ scores[Id12] = 100
    /\ result[1] = Id11
    /\ ~scored

\* C17: for a valid query that is no member of a non-empty known list the
\* result is the Fuzzy outcome with a candidate of the highest score exactly
\* when that score is at least 80, and (None, no match) otherwise.
C17_FuzzyThreshold ==
    (/\ pc = "matched"
     /\ normalize_benchmark_format(query) # None
     /\ normalize_benchmark_format(query) \notin Known
     /\ benchmark_list # <<>>)
        => IF MaxScore >= 80
           THEN /\ result[1] \in Known
                /\ scores[result[1]] = MaxScore
                /\ result[2] = <<"Did you mean", result[1]>>
           ELSE result = <<None, <<"No matching benchmark found.", None>>>>

C17_Witness ==
    /\ pc = "matched"
    /\ query = Join(<<"M", "A">>, ".", <<"K">>, ".", <<"N", "S", "O">>, ".", <<"1">>, ".", <<"3">>)
    /\ benchmark_list = <<Id11, Id12>>
    /\ scores[Id11] = 79
    /\ scores[Id12] = 80
    /\ result = <<Id12, <<"Did you mean", Id12>>>>

\* C18: find_closest_benchmark returns a result for every raw string and every
\* known list; a query that is no benchmark id (after case, padding and
\* separators are undone) yields (None, "Invalid benchmark format.") whatever
\* the list, and a valid query against the empty list yields (None, no match).
C18_MalformedIsInvalid ==
    (pc = "matched")
        => /\ (~WellFormed(re_sub(strip(upper(query))))
                  => result = <<None, <<"Invalid benchmark format.", None>>>>)
           /\ ((WellFormed(re_sub(strip(upper(query)))) /\ benchmark_list = <<>>)
                  => result = <<None, <<"No matching benchmark found.", None>>>>)

\* C19: the id find_closest_benchmark returns is None or a member of the known
\* list it was given, for the Exact and for the Fuzzy outcome.
C19_ResultIsKnown ==
    (pc = "matched") => (result[1] = None \/ result[1] \in Known)

C19_Witness ==
    /\ pc = "matched"
    /\ query = Id11 \o <<".", "X", "Y", "Z">>
    /\ benchmark_list = <<IdK12, Id11>>
    /\ scores[Id11] = 100
    /\ result[1] = Id11
    /\ scored

\* C20: after any sequence of save_state calls whose last call returned True
\* for X, load_state returns X; as long as no save_state call returned True,
\* load_state returns None.
C20_CheckpointRoundTrip ==
    loaded[2]
        => /\ (last_save[2] => loaded[1] = last_save[1])
           /\ (~ever_saved => loaded[1] = None)

C20_Witness ==
    /\ loaded = <<B, TRUE>>
    /\ last_save = <<B, TRUE>>
    /\ ever_saved
    /\ temp_file = None
    /\ state_file = save_state(B)

\* C21: whatever the step of save_state(X) at which the process dies, the
\* state file holds the complete checkpoint it held when the call began or the
\* complete checkpoint of X, and a later load_state returns one of those two
\* ids, never a partial or corrupt value.
C21_CheckpointCrashAtomic ==
    /\ state_file \in {previous, save_state(saving)}
    /\ (state_file = None \/ json_loads(state_file))
    /\ (loaded[2] =>
          loaded[1] \in {saving, IF previous = None THEN None
                                 ELSE dict_get(previous, "last_processed")})

C21_Witness ==
    /\ pc = "ckpt"
    /\ loaded = <<A, TRUE>>
    /\ saving = B
    /\ previous = save_state(A)
    /\ state_file = save_state(A)
    /\ temp_file = Truncated(save_state(B))

Added == SubSeq(db_resources, found[2] + 1, Len(db_resources))

\* C23: the extractor stores only blocks whose type resolves to Lesson Plan or
\* Formative Assessment: no row of type Other is added, a block resolving to
\* Other is not counted, and the count returned equals the number of resource
\* rows the call added, all of them for the benchmark of the call.
C23_ExtractorDropsOther ==
    (pc = "extracted")
        => /\ found[1] = Len(db_resources) - found[2]
           /\ \A k \in 1..Len(Added) :
                 /\ Added[k].resource_type \in {"Lesson Plan", "Formative Assessment"}
                 /\ Added[k].benchmark_id = benchmark_id
           /\ found[1] <= Cardinality({k \in 1..Len(page.blocks) :
                              ResourceType(page.blocks[k]) # "Other"})

C23_Witness ==
    /\ pc = "extracted"
    /\ page.blocks = <<LessonBlock, AssessmentBlock, OtherBlock>>
    /\ found = <<2, 1>>
    /\ Len(db_resources) = 3
    /\ benchmark_id = B

\* C24: the delay before retry n is min(max_delay, base_delay *
\* backoff_factor^(n-1)): 5, 10 and 20 seconds with the defaults, never above
\* max_delay, non-decreasing in n for a backoff factor of at least 1, and the
\* time slept lies within ten per cent of it.
C24_BackoffDelay ==
    /\ (sleeps = 1 => backoff[1] = 5000)
    /\ (sleeps = 2 => backoff[1] = 10000)
    /\ (sleeps = 3 => backoff[1] = 20000)
    /\ backoff[1] <= MaxDelay
    /\ 900 * backoff[1] <= 1000 * backoff[2]
    /\ 1000 * backoff[2] <= 1100 * backoff[1]
    /\ (sleeps >= 1 => backoff[1] >= BaseDelay)
    /\ \A n \in 1..(max_retries + 1), factor \in 1..3, base \in {1000, BaseDelay} :
          /\ backoff_delay(n, base, MaxDelay, factor) <= MaxDelay
          /\ backoff_delay(n, base, MaxDelay, factor)
                <= backoff_delay(n + 1, base, MaxDelay, factor)

C24_Witness ==
    /\ sleeps = 5
    /\ retry_count = 5
    /\ backoff = <<60000, 66000>>
    /\ pc = "fetch"

\* the ids of the list the run iterated whose scrape status is st
WithStatus(st) == {b \in SeqToSet(benchmark_ids) : StatusOf(b) = st}

\* C25: when scrape_all_benchmarks returns (processed, successful), processed
\* is the number of ids of its working set with status success plus the number
\* with status failed, successful is the number with status success, and
\* successful <= processed <= the size of the working set.
C25_SummaryAgrees ==
    (pc = "complete") =>
        /\ total_successful = Cardinality(WithStatus("success"))
        /\ total_processed - total_successful = Cardinality(WithStatus("failed"))
        /\ total_successful <= total_processed
        /\ total_processed <= Len(benchmark_ids)
        /\ total_processed <= Cardinality(benchmarks)

\* C26: the error text is set only on failure: in every state of the crawl a
\* scrape status record with status pending or success has an empty error
\* message, so a success after an earlier failure of the id clears the error.
C26_ErrorOnlyOnFailure ==
    \A b \in DOMAIN db_scrape_status :
        db_scrape_status[b].status \in {"pending", "success"}
            => db_scrape_status[b].error_message = ""

\* the second run retries the failed A alone, and A succeeds
C26_Witness ==
    /\ runs = 2
    /\ retry_failed
    /\ benchmarks = {A}
    /\ pc = "complete"
    /\ StatusOf(A) = "success"
    /\ db_scrape_status[A].attempt_count = 4
    /\ db_scrape_status[A].error_message = ""
    /\ StatusOf(C) = "success"
    /\ db_scrape_status[C].attempt_count = 2

\* the resource rows of benchmark b
RowsOf(b) == {k \in 1..Len(db_resources) : db_resources[k].benchmark_id = b}

\* C27: resources are append-only and not deduplicated: a store_resource call
\* adds exactly one row and no call removes or changes a row, so n scrapes of
\* a benchmark whose markup yields two kept resources leave 2n rows for it
\* (plus its single stores), while an access point has one row, which names
\* the benchmark of its latest store.
C27_AppendOnly ==
    /\ [](/\ \A b \in StoreIds :
                (pc = "store") =>
                    Cardinality(RowsOf(b)) = 2 * store_log.scrapes[b] + store_log.stores[b]
          /\ (pc = "store") =>
                /\ DOMAIN db_access_points = {ap \in ApIds : store_log.ap_stores[ap] > 0}
                /\ \A ap \in DOMAIN db_access_points :
                      db_access_points[ap] = store_log.latest[ap])
    /\ [][/\ Len(db_resources') >= Len(db_resources)
          /\ SubSeq(db_resources', 1, Len(db_resources)) = db_resources
          /\ (store_log'.stores # store_log.stores
                 => Len(db_resources') = Len(db_resources) + 1)]_vars

\* A scraped twice with the same markup, and an access point stored for A and
\* then for B
C27_Witness ==
    /\ pc = "store"
    /\ store_log.scrapes[A] = 2
    /\ Cardinality(RowsOf(A)) = 4
    /\ db_resources[1] = db_resources[3]
    /\ store_log.ap_stores["MA.K.NSO.1.AP.1"] = 2
    /\ db_access_points = [ap \in {"MA.K.NSO.1.AP.1"} |-> B]

\* C28: when a run is interrupted and the next run is started with --resume
\* over the same working set, that run fetches every id (with a URL) that
\* comes after the loaded checkpoint, among them the item that was in flight
\* at the interrupt and every id after it, and fetches none of the ids the
\* interrupted run completed successfully up to the checkpoint.
C28_ResumeWithoutSkipping ==
    (pc = "complete" /\ prior.follows /\ prior.resumed /\ benchmarks = prior.benchmarks)
        => \A b \in benchmarks :
              /\ (start_from # None /\ LexLess(start_from, b) /\ excel[b] # NoUrl)
                    => b \in fetched
              /\ (prior.in_flight # None /\ excel[b] # NoUrl
                  /\ (b = prior.in_flight \/ LexLess(prior.in_flight, b)))
                    => b \in fetched
              /\ (b \in prior.succeeded /\ start_from # None /\ ~LexLess(start_from, b))
                    => b \notin fetched

\* C29: a crawl run always terminates, whatever the outcomes of its requests:
\* a run that has started reaches its return, no fetch issues more than
\* max_retries + 1 requests, and the loop takes up each id of the working set
\* at most once, in strictly increasing lexical order.
C29_RunTerminates ==
    /\ [](/\ Len(served) <= max_retries + 1
          /\ \A j \in 1..(Len(visited) - 1) : LexLess(visited[j], visited[j + 1])
          /\ SeqToSet(visited) \subseteq benchmarks)
    /\ [](pc \in Running => <>(pc = "complete"))

\* the run returns after a skipped id and an id whose four requests failed
C29_Witness ==
    /\ pc = "complete"
    /\ visited = <<A, B, C>>
    /\ fetched = {A, C}
    /\ StatusOf(A) = "success"
    /\ StatusOf(C) = "failed"
    /\ start_from = AB

\* C30: when a call of scrape_benchmark(X) has returned it has made exactly
\* two status updates for X, X's attempt_count is 2 above its value at entry,
\* X's status is not pending, and the call returned True exactly when the
\* status is success and False exactly when it is failed.
C30_TwoUpdatesPerCall ==
    (pc \in {"save", "delay"})
        => /\ update_calls[benchmark_id] = entry[2] + 2
           /\ benchmark_id \in DOMAIN db_scrape_status
           /\ db_scrape_status[benchmark_id].attempt_count = entry[1] + 2
           /\ StatusOf(benchmark_id) # "pending"
           /\ (success <=> StatusOf(benchmark_id) = "success")
           /\ (~success <=> StatusOf(benchmark_id) = "failed")

====
